---- MODULE Spec2Model ----
(***************************************************************************)
(* Shielding optimizer and Monte Carlo validator of                        *)
(* "Radioactive Decay Sim/Radioactive_Shielding_Optimizer.py".             *)
(*                                                                         *)
(* Number representation.                                                  *)
(*  - Lengths (thicknesses, grid points) and areal densities are exact     *)
(*    fixed-point numbers with scale Den: the integer x stands for x/Den.  *)
(*    Den is the least common multiple of the step divisors the model      *)
(*    uses, so that every point of every np.linspace grid is exact.        *)
(*  - A transmission (a positive real I/I0) is represented by its negated  *)
(*    natural logarithm, in the same fixed-point scale: the integer a      *)
(*    stands for exp(-a/Den).  Under this encoding np.exp(x) is -x, a      *)
(*    product of transmissions is a sum, and "<=" between transmissions is *)
(*    ">=" between their codes.  A target fraction that is zero or         *)
(*    negative has no logarithm and is the record with pos = FALSE.        *)
(*  - Attenuation coefficients and densities are plain integers.           *)
(***************************************************************************)
EXTENDS Integers, Sequences, FiniteSets, TLC

VARIABLES call, out, prevCall, prevOut, rng

vars == <<call, out, prevCall, prevOut, rng>>

(***************************************************************************)
(* Bounds of the model.                                                    *)
(***************************************************************************)
MaxSteps == 4
MaxThick == 1
MaxMu == 1
MaxRho == 1
MaxNl == 1
MaxN == 2
MaxSeed == 1
RngMod == 3

RECURSIVE Gcd(_, _)
Gcd(a, b) == IF b = 0 THEN a ELSE Gcd(b, a % b)

RECURSIVE LcmUpTo(_)
LcmUpTo(n) == IF n <= 1 THEN 1 ELSE LET l == LcmUpTo(n - 1) IN (l * n) \div Gcd(l, n)

\* the fixed-point scale: every divisor num - 1 of a grid with num <= MaxSteps divides it
Den == LcmUpTo(MaxSteps - 1)

Fix(x) == x * Den

(***************************************************************************)
(* Python values.                                                          *)
(***************************************************************************)
None == << >>

Raise(exc) == [kind |-> "raise", exc |-> exc]

Return(v) == [kind |-> "return", value |-> v]

\* a float that may be non-finite: n/d with d > 0, or inf, -inf, nan
Fin(n, d) == [k |-> "fin", n |-> n, d |-> d]

Inf == [k |-> "inf", n |-> 0, d |-> 1]

NegInf == [k |-> "-inf", n |-> 0, d |-> 1]

NaN == [k |-> "nan", n |-> 0, d |-> 1]

\* numpy float division x / y of a finite x by an integer-valued y: a zero
\* divisor gives inf, -inf or nan with a RuntimeWarning, never an exception
NpDiv(x, y) ==
    IF y = 0 THEN (IF x > 0 THEN Inf ELSE IF x < 0 THEN NegInf ELSE NaN)
    ELSE IF y > 0 THEN Fin(x, y) ELSE Fin(0 - x, 0 - y)

\* IEEE product of an integer-valued c and a float f
NpMul(c, f) ==
    IF f.k = "fin" THEN Fin(c * f.n, f.d)
    ELSE IF f.k = "nan" \/ c = 0 THEN NaN
    ELSE IF (f.k = "inf") = (c > 0) THEN Inf ELSE NegInf

(***************************************************************************)
(* Utility / physics functions.                                            *)
(***************************************************************************)
linear_mu_from_mass(mu_mass, density) == mu_mass * density

\* np.exp(x) in the transmission encoding: exp(x) has negated logarithm -x
NpExp(x) == 0 - x

\* np.log(target) in the same encoding (callers guard pos)
NpLog(target) == 0 - target.nl

\* product of two encoded transmissions
TransMul(a, b) == a + b

\* total_trans >= target_fraction
TransGe(a, target) == target.pos /\ a <= target.nl

\* total_trans <= target_fraction: false for a target <= 0, every transmission being > 0
TransLe(a, target) == target.pos /\ a >= target.nl

\* np.exp(-mu_lin * thickness) of a float thickness; the exponent is finite or nan
\* (a thickness is infinite only beside mu_lin = 0, and 0 * inf is nan)
transmission_exponential(mu_lin, thickness) ==
    LET x == NpMul(0 - mu_lin, thickness)
    IN IF x.k = "fin" THEN Fin(NpExp(x.n), x.d) ELSE NaN

required_thickness_for_target(mu_lin, target_fraction) ==
    IF ~target_fraction.pos THEN Raise("ValueError")
    ELSE Return(NpDiv(0 - NpLog(target_fraction), mu_lin))

(***************************************************************************)
(* Two-material brute-force optimizer.                                     *)
(***************************************************************************)
Has(mat, key) == key \in DOMAIN mat

\* dict.get(key, default)
Get(mat, key, default) == IF Has(mat, key) THEN mat[key] ELSE default

\* mu_lin_from(mat): a missing key is a KeyError
MuLinOk(mat) == Has(mat, "mu_lin") \/ (Has(mat, "mu_mass") /\ Has(mat, "density"))

mu_lin_from(mat) ==
    IF Has(mat, "mu_lin") THEN mat["mu_lin"]
    ELSE linear_mu_from_mass(mat["mu_mass"], mat["density"])

\* np.linspace(0, stop, num, endpoint=False): step = stop / num
LinspaceOpen(stop, num) ==
    [i \in 1..num |-> ((i - 1) * Fix(stop)) \div num]

\* np.linspace(0, stop, num): num points, step = stop / (num - 1), [0.] for num = 1
Linspace(stop, num) ==
    [i \in 1..num |-> IF num = 1 THEN 0 ELSE ((i - 1) * Fix(stop)) \div (num - 1)]

NpAny(mask) == \E j \in 1..Len(mask) : mask[j]

\* arr[mask]: the elements of arr where mask is true, in order
RECURSIVE MaskIdx(_, _)
MaskIdx(mask, j) ==
    IF j > Len(mask) THEN << >>
    ELSE IF mask[j] THEN <<j>> \o MaskIdx(mask, j + 1)
    ELSE MaskIdx(mask, j + 1)

Masked(arr, mask) == LET ix == MaskIdx(mask, 1) IN [k \in 1..Len(ix) |-> arr[ix[k]]]

\* last index of the minimum
ArgMinLast(arr) ==
    CHOOSE k \in 1..Len(arr) :
        /\ \A m \in 1..Len(arr) : arr[k] <= arr[m]
        /\ \A m \in (k + 1)..Len(arr) : arr[m] > arr[k]

\* np.argmin: index of the first occurrence of the minimum
ArgMin(arr) ==
    CHOOSE k \in 1..Len(arr) :
        /\ \A m \in 1..Len(arr) : arr[k] <= arr[m]
        /\ \A m \in 1..(k - 1) : arr[m] > arr[k]

\* (best is None) or (this_best_areal > best)
BetterMax(best, this_best_areal) == best = None \/ this_best_areal > best[1]

\* (best is None) or (this_best_areal < best)
Better(best, this_best_areal) == best = None \/ this_best_areal < best[1]

\* the row's record with the transmission read from the unmasked array
RowBestUnmasked(t1, t2_vals, total_trans, mask_ok, rho1, rho2) ==
    LET areal == [j \in 1..Len(t2_vals) |-> rho1 * t1 + rho2 * t2_vals[j]]
        areal_ok == Masked(areal, mask_ok)
        t2_ok == Masked(t2_vals, mask_ok)
        idx == ArgMin(areal_ok)
    IN [t1_cm |-> t1, t2_cm |-> t2_ok[idx],
        areal_density_g_per_cm2 |-> areal_ok[idx], transmission |-> total_trans[idx]]

\* lines 116-124 and 127-132: the best feasible combination of one t1 row
RowBest(t1, t2_vals, total_trans, mask_ok, rho1, rho2) ==
    LET areal == [j \in 1..Len(t2_vals) |-> rho1 * t1 + rho2 * t2_vals[j]]
        areal_ok == Masked(areal, mask_ok)
        t2_ok == Masked(t2_vals, mask_ok)
        trans_ok == Masked(total_trans, mask_ok)
        idx == ArgMin(areal_ok)
    IN [t1_cm |-> t1, t2_cm |-> t2_ok[idx],
        areal_density_g_per_cm2 |-> areal_ok[idx], transmission |-> trans_ok[idx]]

\* the for loop over t1_vals from row i on, with the running best and best_details
RECURSIVE GridSearch(_, _, _, _, _, _, _, _, _, _)
GridSearch(i, t1_vals, t2_vals, mu1, mu2, rho1, rho2, target, best, best_details) ==
    IF i > Len(t1_vals) THEN best_details
    ELSE
        LET t1 == t1_vals[i]
            trans1 == NpExp(0 - (mu1 * t1))
            trans2 == [j \in 1..Len(t2_vals) |-> NpExp(0 - (mu2 * t2_vals[j]))]
            total_trans == [j \in 1..Len(t2_vals) |-> TransMul(trans1, trans2[j])]
            mask_ok == [j \in 1..Len(t2_vals) |-> TransLe(total_trans[j], target)]
        IN  IF ~NpAny(mask_ok)
            THEN GridSearch(i + 1, t1_vals, t2_vals, mu1, mu2, rho1, rho2, target,
                            best, best_details)
            ELSE
                LET row == RowBest(t1, t2_vals, total_trans, mask_ok, rho1, rho2)
                IN  IF Better(best, row.areal_density_g_per_cm2)
                    THEN GridSearch(i + 1, t1_vals, t2_vals, mu1, mu2, rho1, rho2, target,
                                    <<row.areal_density_g_per_cm2>>, row)
                    ELSE GridSearch(i + 1, t1_vals, t2_vals, mu1, mu2, rho1, rho2, target,
                                    best, best_details)

optimize_two_materials(mat1, mat2, target_fraction, max_thickness1, max_thickness2, steps1, steps2) ==
    IF ~MuLinOk(mat1) \/ ~MuLinOk(mat2) THEN Raise("KeyError")
    ELSE
        LET mu1 == mu_lin_from(mat1)
            mu2 == mu_lin_from(mat2)
            rho1 == Get(mat1, "density", 1)
            rho2 == Get(mat2, "density", 1)
            t1_vals == Linspace(max_thickness1, steps1)
            t2_vals == Linspace(max_thickness2, steps2)
        IN Return(GridSearch(1, t1_vals, t2_vals, mu1, mu2, rho1, rho2,
                             target_fraction, None, None))

(***************************************************************************)
(* Simple single-material optimizer.                                       *)
(***************************************************************************)
single_material_solution(material, target_fraction) ==
    IF ~MuLinOk(material) THEN Raise("ValueError")
    ELSE
        LET mu_lin == mu_lin_from(material)
            r == required_thickness_for_target(mu_lin, target_fraction)
        IN  IF r.kind = "raise" THEN r
            ELSE
                LET thickness == r.value
                    areal_density == NpMul(Get(material, "density", 1), thickness)
                IN Return(<<thickness, areal_density,
                            transmission_exponential(mu_lin, thickness)>>)

\* the caller's test "if best:" of the optimizer's result: None and {} are falsy
Truthy(best) == best # None /\ DOMAIN best # {}

(***************************************************************************)
(* Monte Carlo validator.  The process-wide generator of np.random is a    *)
(* deterministic stream; the model keeps its state as a number below       *)
(* RngMod, and Unseeded until the first use (numpy seeds it from the       *)
(* operating system's entropy, so that first state is arbitrary).  A       *)
(* uniform variate U is represented by -ln(U) in the fixed-point scale.    *)
(***************************************************************************)
Unseeded == 0 - 1

RngStates == 0..(RngMod - 1)

\* np.random.seed(seed)
SeedState(seed) == seed % RngMod

\* the generator's state after one draw
RngStep(r) == (r + 1) % RngMod

RECURSIVE RngAfter(_, _)
RngAfter(r, n) == IF n <= 0 THEN r ELSE RngAfter(RngStep(r), n - 1)

\* -ln(U) of the variate drawn in state r
NegLogU(r) == Fix(r) + 1

\* s > thickness for s = -ln(U) / mu_lin, as IEEE division and comparison decide it
PathExceeds(e, mu_lin, thickness) ==
    IF mu_lin > 0 THEN e > mu_lin * thickness
    ELSE IF mu_lin = 0 THEN TRUE
    ELSE e < mu_lin * thickness

\* the estimate from generator state r0 on: (transmitted, se), se given by its square
McEstimate(r0, mu_lin, thickness, N) ==
    LET hits == {i \in 1..N : PathExceeds(NegLogU(RngAfter(r0, i - 1)), mu_lin, thickness)}
        count == Cardinality(hits)
    IN <<NpDiv(count, N), NpDiv(count * (N - count), N * N * N)>>

\* the state the draws start from: the seeded one when a seed is given
McStart(r, seed) == IF seed # None THEN SeedState(seed[1]) ELSE r

\* np.random.random(N) refuses a negative N
mc_transmission(r0, mu_lin, thickness, N) ==
    IF N < 0 THEN Raise("ValueError") ELSE Return(McEstimate(r0, mu_lin, thickness, N))

(***************************************************************************)
(* Inputs.                                                                 *)
(***************************************************************************)
\* material dicts: well-formed ones, and ones spec section 7 calls invalid
ValidMaterials ==
    {[mu_lin |-> m, density |-> r] : m \in 0..MaxMu, r \in 0..MaxRho}
    \cup {[mu_lin |-> 1], [mu_mass |-> 2, density |-> 1]}

InvalidMaterials ==
    {<< >>, [density |-> 1], [mu_mass |-> 1],
     [mu_lin |-> 0 - 1, density |-> 1], [mu_lin |-> 1, density |-> 0 - 1],
     [mu_mass |-> 0 - 1, density |-> 1]}

Materials == ValidMaterials \cup InvalidMaterials

\* the pairs the optimizer is called with: an invalid material beside a valid one
MaterialPairs ==
    (ValidMaterials \X ValidMaterials)
    \cup (InvalidMaterials \X {[mu_lin |-> 1, density |-> 1]})
    \cup ({[mu_lin |-> 1, density |-> 1]} \X InvalidMaterials)

\* target fractions: one that is <= 0, and exp(-L) for L in -1..MaxNl (L = -1: above 1)
Targets ==
    {[pos |-> FALSE, nl |-> 0]} \cup {[pos |-> TRUE, nl |-> Fix(L)] : L \in (0 - 1)..MaxNl}

Thicknesses == 0..MaxThick

StepCounts == 0..MaxSteps

Coefficients == (0 - 1)..MaxMu

SampleCounts == (0 - 1)..MaxN

\* seed=None, or a seed
Seeds == {None} \cup {<<s>> : s \in 0..MaxSeed}

NoCall == [op |-> "none"]

Init ==
    /\ call = NoCall
    /\ out = None
    /\ prevCall = NoCall
    /\ prevOut = None
    /\ rng = Unseeded

OptimizeTwoMaterials ==
    /\ call = NoCall
    /\ \E mats \in MaterialPairs, target \in Targets,
          max1 \in Thicknesses, max2 \in Thicknesses,
          steps1 \in StepCounts, steps2 \in StepCounts :
        /\ call' = [op |-> "optimize_two_materials", mat1 |-> mats[1], mat2 |-> mats[2],
                    target_fraction |-> target, max_thickness1 |-> max1,
                    max_thickness2 |-> max2, steps1 |-> steps1, steps2 |-> steps2]
        /\ out' = optimize_two_materials(mats[1], mats[2], target, max1, max2,
                                         steps1, steps2)
    /\ UNCHANGED <<prevCall, prevOut, rng>>

\* the same call again on a finer grid: steps1' >= steps1, steps2' >= steps2
OptimizeFiner ==
    /\ call.op = "optimize_two_materials"
    /\ prevCall = NoCall
    /\ out.kind = "return"
    /\ out.value # None
    /\ \E steps1 \in StepCounts, steps2 \in StepCounts :
        /\ steps1 >= call.steps1
        /\ steps2 >= call.steps2
        /\ call' = [call EXCEPT !.steps1 = steps1, !.steps2 = steps2]
        /\ out' = optimize_two_materials(call.mat1, call.mat2, call.target_fraction,
                                         call.max_thickness1, call.max_thickness2,
                                         steps1, steps2)
    /\ prevCall' = call
    /\ prevOut' = out
    /\ UNCHANGED rng

RequiredThicknessForTarget ==
    /\ call = NoCall
    /\ \E mu_lin \in Coefficients, target \in Targets :
        /\ call' = [op |-> "required_thickness_for_target", mu_lin |-> mu_lin,
                    target_fraction |-> target]
        /\ out' = required_thickness_for_target(mu_lin, target)
    /\ UNCHANGED <<prevCall, prevOut, rng>>

SingleMaterialSolution ==
    /\ call = NoCall
    /\ \E material \in Materials, target \in Targets :
        /\ call' = [op |-> "single_material_solution", material |-> material,
                    target_fraction |-> target]
        /\ out' = single_material_solution(material, target)
    /\ UNCHANGED <<prevCall, prevOut, rng>>

\* calls of the validator follow one another and share the process-wide generator
McTransmission ==
    /\ call.op \in {"none", "mc_transmission"}
    /\ \E mu_lin \in Coefficients, thickness \in Thicknesses, N \in SampleCounts,
          seed \in Seeds, r \in (IF rng = Unseeded THEN RngStates ELSE {rng}) :
        LET r0 == McStart(r, seed)
        IN  /\ call' = [op |-> "mc_transmission", mu_lin |-> mu_lin,
                        thickness |-> thickness, N |-> N, seed |-> seed]
            /\ out' = mc_transmission(r0, mu_lin, Fix(thickness), N)
            /\ rng' = RngAfter(r0, N)
    /\ UNCHANGED <<prevCall, prevOut>>

Next ==
    \/ OptimizeTwoMaterials
    \/ OptimizeFiner
    \/ RequiredThicknessForTarget
    \/ SingleMaterialSolution
    \/ McTransmission

Spec == Init /\ [][Next]_vars

\* the runs without a repeated optimizer call: every call of every operation on
\* every input, which is all a property of a single call depends on
NextCalls ==
    \/ OptimizeTwoMaterials
    \/ RequiredThicknessForTarget
    \/ SingleMaterialSolution
    \/ McTransmission

SpecCalls == Init /\ [][NextCalls]_vars

(***************************************************************************)
(* Properties.                                                             *)
(***************************************************************************)
OptCall == call.op = "optimize_two_materials"

\* the last call was of the optimizer and returned a design
Design == OptCall /\ out.kind = "return" /\ out.value # None

\* the inputs spec sections 3 and 7 admit: materials with non-negative coefficient
\* and density, and a target in (0, 1]
InDomain(c) ==
    /\ c.mat1 \in ValidMaterials
    /\ c.mat2 \in ValidMaterials
    /\ c.target_fraction.pos
    /\ c.target_fraction.nl >= 0

\* The properties restate feasibility, areal density and the grids from the call's
\* arguments, apart from the operators of the search.
\* the grid pair (a, b) meets the target of call c: exp(-mu1 a) exp(-mu2 b) <= target
Feasible(c, a, b) ==
    /\ c.target_fraction.pos
    /\ mu_lin_from(c.mat1) * a + mu_lin_from(c.mat2) * b >= c.target_fraction.nl

ArealOf(c, a, b) == Get(c.mat1, "density", 1) * a + Get(c.mat2, "density", 1) * b

\* the points of the two thickness grids of call c
Points1(c) == {((i - 1) * Fix(c.max_thickness1)) \div (c.steps1 - 1) : i \in 2..c.steps1}
              \cup (IF c.steps1 >= 1 THEN {0} ELSE {})

Points2(c) == {((j - 1) * Fix(c.max_thickness2)) \div (c.steps2 - 1) : j \in 2..c.steps2}
              \cup (IF c.steps2 >= 1 THEN {0} ELSE {})

FeasiblePairs(c) == {pr \in Points1(c) \X Points2(c) : Feasible(c, pr[1], pr[2])}

\* C1: a returned design's transmission is <= target_fraction, it is the product of
\* the two materials' transmissions at the returned thicknesses, and the returned
\* thicknesses are points of their grids.
C1_TransmissionWithinTarget ==
    Design =>
        LET d == out.value
        IN  /\ call.target_fraction.pos
            /\ d.transmission >= call.target_fraction.nl
            /\ Fin(d.transmission, 1) =
                   LET a == transmission_exponential(mu_lin_from(call.mat1), Fin(d.t1_cm, 1))
                       b == transmission_exponential(mu_lin_from(call.mat2), Fin(d.t2_cm, 1))
                   IN Fin(a.n + b.n, 1)
            /\ d.t1_cm \in Points1(call)
            /\ d.t2_cm \in Points2(call)

\* a design of positive thickness in both materials, both attenuating, for a target
\* below 1 that neither material meets alone at the returned thickness
C1_Witness ==
    /\ Design
    /\ InDomain(call)
    /\ out.value.t1_cm > 0
    /\ out.value.t2_cm > 0
    /\ call.target_fraction.nl > 0
    /\ mu_lin_from(call.mat1) * out.value.t1_cm < call.target_fraction.nl
    /\ mu_lin_from(call.mat2) * out.value.t2_cm < call.target_fraction.nl

\* C2: a returned design's areal density is density1*t1 + density2*t2 of the returned
\* pair, and no feasible grid pair has a strictly smaller areal density.
C2_MinimalArealDensity ==
    Design =>
        LET d == out.value
        IN  /\ d.areal_density_g_per_cm2 = ArealOf(call, d.t1_cm, d.t2_cm)
            /\ \A pr \in FeasiblePairs(call) :
                   ArealOf(call, pr[1], pr[2]) >= d.areal_density_g_per_cm2

\* a design that beats a feasible pair of an earlier row and a feasible pair of a
\* later row
C2_Witness ==
    /\ Design
    /\ InDomain(call)
    /\ \E pr \in FeasiblePairs(call) :
           /\ pr[1] < out.value.t1_cm
           /\ ArealOf(call, pr[1], pr[2]) > out.value.areal_density_g_per_cm2
    /\ \E pr \in FeasiblePairs(call) :
           /\ pr[1] > out.value.t1_cm
           /\ ArealOf(call, pr[1], pr[2]) > out.value.areal_density_g_per_cm2

\* C3: the optimizer returns None exactly when no grid pair meets the target; with
\* both maximum thicknesses 0 and a target below 1 it returns None; and a design,
\* also the zero-thickness one of target 1, passes the caller's test of the result
\* while None does not.
C3_NoneIffInfeasible ==
    (OptCall /\ out.kind = "return") =>
        /\ (out.value = None) <=> (FeasiblePairs(call) = {})
        /\ (/\ call.max_thickness1 = 0
            /\ call.max_thickness2 = 0
            /\ call.target_fraction.pos
            /\ call.target_fraction.nl > 0) => out.value = None
        /\ Truthy(out.value) <=> (out.value # None)

\* both maximum thicknesses 0 on non-empty grids and a target below 1: no design
C3_Witness ==
    /\ OptCall
    /\ out = Return(None)
    /\ call.max_thickness1 = 0
    /\ call.max_thickness2 = 0
    /\ call.steps1 >= 1
    /\ call.steps2 >= 1
    /\ call.target_fraction.pos
    /\ call.target_fraction.nl > 0

\* C10: among the grid pairs that attain the returned (minimum) areal density and
\* meet the target, the returned pair has the smallest t1 and, for that t1, the
\* smallest t2.
C10_TieBreakFirst ==
    Design =>
        LET d == out.value
        IN  \A pr \in FeasiblePairs(call) :
                ArealOf(call, pr[1], pr[2]) = d.areal_density_g_per_cm2 =>
                    \/ pr[1] > d.t1_cm
                    \/ (pr[1] = d.t1_cm /\ pr[2] >= d.t2_cm)

\* a design for a target below 1 that is tied with a feasible pair of a later row
C10_Witness ==
    /\ Design
    /\ InDomain(call)
    /\ call.target_fraction.nl > 0
    /\ \E pr \in FeasiblePairs(call) :
           /\ pr[1] > out.value.t1_cm
           /\ ArealOf(call, pr[1], pr[2]) = out.value.areal_density_g_per_cm2

\* the last call repeated an optimizer call on a grid at least as fine
Refined == prevCall.op = "optimize_two_materials" /\ OptCall

PrevDesign == prevOut.kind = "return" /\ prevOut.value # None

\* every point of np.linspace(0, stop, n) is a point of np.linspace(0, stop, n2)
Nested(n, n2) == n = 1 \/ (n >= 2 /\ (n2 - 1) % (n - 1) = 0)

\* C8 as stated: when the coarser call returned a design, the call with
\* steps1' >= steps1 and steps2' >= steps2 returns a design whose areal density is
\* not larger.
C8_FinerNeverWorse ==
    (Refined /\ PrevDesign /\ InDomain(call)) =>
        /\ Design
        /\ out.value.areal_density_g_per_cm2 <= prevOut.value.areal_density_g_per_cm2

\* C8 amended: when the coarser call returned a design, the finer call returns a
\* design too, and its areal density is not larger whenever each coarser grid is
\* contained in the finer one (steps = 1, or steps - 1 divides steps' - 1).
C8_NestedFinerNeverWorse ==
    (Refined /\ PrevDesign) =>
        /\ Design
        /\ (Nested(prevCall.steps1, call.steps1) /\ Nested(prevCall.steps2, call.steps2)) =>
               out.value.areal_density_g_per_cm2 <= prevOut.value.areal_density_g_per_cm2

\* a strictly finer nested grid in both materials that strictly lowers the minimum
C8_Witness ==
    /\ Refined
    /\ PrevDesign
    /\ Design
    /\ InDomain(call)
    /\ prevCall.steps1 >= 2
    /\ prevCall.steps2 >= 2
    /\ call.steps1 > prevCall.steps1
    /\ call.steps2 > prevCall.steps2
    /\ Nested(prevCall.steps1, call.steps1)
    /\ Nested(prevCall.steps2, call.steps2)
    /\ out.value.areal_density_g_per_cm2 < prevOut.value.areal_density_g_per_cm2

InvalidTarget(t) == ~t.pos \/ t.nl < 0

\* C4: a target fraction <= 0 or > 1 is rejected with an error by
\* required_thickness_for_target, single_material_solution and
\* optimize_two_materials; none of them returns a value for it.
C4_InvalidTargetRejected ==
    /\ (/\ call.op = "required_thickness_for_target"
        /\ InvalidTarget(call.target_fraction)) => out.kind = "raise"
    /\ (/\ call.op = "single_material_solution"
        /\ call.material \in ValidMaterials
        /\ InvalidTarget(call.target_fraction)) => out.kind = "raise"
    /\ (/\ OptCall
        /\ call.mat1 \in ValidMaterials
        /\ call.mat2 \in ValidMaterials
        /\ call.steps1 >= 1
        /\ call.steps2 >= 1
        /\ InvalidTarget(call.target_fraction)) => out.kind = "raise"

InvalidMaterial(m) ==
    \/ ~MuLinOk(m)
    \/ \E key \in {"mu_lin", "mu_mass", "density"} : Has(m, key) /\ m[key] < 0

\* C5: a material without a coefficient, or with a negative density or coefficient,
\* is rejected with an error by single_material_solution and
\* optimize_two_materials; neither returns a result for it.
C5_InvalidMaterialRejected ==
    /\ (/\ call.op = "single_material_solution"
        /\ ~InvalidTarget(call.target_fraction)
        /\ InvalidMaterial(call.material)) => out.kind = "raise"
    /\ (/\ OptCall
        /\ ~InvalidTarget(call.target_fraction)
        /\ call.steps1 >= 1
        /\ call.steps2 >= 1
        /\ (InvalidMaterial(call.mat1) \/ InvalidMaterial(call.mat2))) => out.kind = "raise"

IsFinite(f) == f.k = "fin"

\* C6: with linear coefficient 0 and a target in (0, 1], required_thickness_for_target
\* raises an error, and single_material_solution returns no design with a
\* non-finite thickness or areal density.
C6_ZeroCoefficientRejected ==
    /\ (/\ call.op = "required_thickness_for_target"
        /\ call.mu_lin = 0
        /\ ~InvalidTarget(call.target_fraction)) => out.kind = "raise"
    /\ (call.op = "single_material_solution" /\ out.kind = "return")
           => (IsFinite(out.value[1]) /\ IsFinite(out.value[2]))

\* C7: mc_transmission fails for a sample count N <= 0 and for a linear coefficient
\* <= 0, and never returns an estimate that is NaN.
C7_InvalidParametersRejected ==
    call.op = "mc_transmission" =>
        /\ (call.N <= 0 \/ call.mu_lin <= 0) => out.kind = "raise"
        /\ out.kind = "return" => (IsFinite(out.value[1]) /\ IsFinite(out.value[2]))

\* C9: a call mc_transmission(..., seed=s) leaves the state of the process-wide
\* generator as it was before the call.
C9_SeededCallKeepsGlobalState ==
    [][(/\ call'.op = "mc_transmission"
        /\ call'.seed # None
        /\ rng # Unseeded) => rng' = rng]_vars

====
